---- MODULE Spec2Model ----
(***************************************************************************)
(* Layout validation engine of the parking-layout generator                *)
(* (src/utils/geometry.ts): rotated-rectangle corners, SAT polygon         *)
(* intersection, the uniform spatial grid, and validateLayout's passes     *)
(* (bounds, overlap, placement, adjacency, navigation graph + BFS, global  *)
(* cardinality), the module-level corner cache that outlives a call, and   *)
(* the callers that validate one layout after another, among them the      *)
(* validate-and-fix loop ensureValidLayout of src/services/geminiService.  *)
(*                                                                         *)
(* Numbers.  The source computes in IEEE doubles.  The model computes in   *)
(* exact arithmetic on integers: element fields (x, y, width, height) are  *)
(* integers, and every point returned by getCorners is stored multiplied   *)
(* by Scale (= 2 * TrigDen), which makes the centre (x + width/2) and the  *)
(* rotated offsets whole numbers.  The rotations of the model are the      *)
(* multiples of 90 degrees and the angle whose cosine is 3/5 and sine is   *)
(* 4/5 (Rot345), so that cos and sin are exact fractions over TrigDen.     *)
(*                                                                         *)
(* Strings.  Element ids are JavaScript strings compared with >= and <     *)
(* (lexicographic on code units); the model writes an id as the sequence   *)
(* of its character codes and compares sequences lexicographically.        *)
(***************************************************************************)
EXTENDS Integers, Sequences, FiniteSets, TLC

VARIABLES
    layout,      \* the ParkingLayout passed to validateLayout
    pc,          \* position inside validateLayout
    violations,  \* const violations: ConstraintViolation[]
    grid,        \* SpatialGrid.grid: cell key -> list of elements
    adj,         \* adjacency map of the navigation graph: id -> list of ids
    entIdx,      \* position of entrances.forEach in the BFS pass
    visited,     \* BFS visited set of the current entrance
    queue,       \* BFS queue of the current entrance
    dequeued,    \* the results of queue.shift() for the current entrance, in order
    foundExit,   \* BFS flag of the current entrance
    cornerCache, \* const cornerCache = new Map(): cache key -> corners
    call,        \* a direct call of a geometry function: arguments and result
    results,     \* what the earlier validateLayout calls returned, oldest first
    ncalls,      \* number of validateLayout calls begun so far
    ens          \* the locals of ensureValidLayout, the caller of validateLayout

vars == <<layout, pc, violations, grid, adj, entIdx, visited, queue, dequeued,
          foundExit, cornerCache, call, results, ncalls, ens>>

\* what a caller of validateLayout holds between the calls
session == <<call, results, ncalls, ens>>

----------------------------------------------------------------------------
(* types.ts *)

ElementType ==
    [ GROUND            |-> "ground",
      PARKING_SPACE     |-> "parking_space",
      ROAD              |-> "driving_lane",
      SIDEWALK          |-> "pedestrian_path",
      RAMP              |-> "slope",
      PILLAR            |-> "pillar",
      WALL              |-> "wall",
      BUILDING          |-> "building",
      ENTRANCE          |-> "entrance",
      EXIT              |-> "exit",
      STAIRCASE         |-> "staircase",
      ELEVATOR          |-> "elevator",
      CHARGING_STATION  |-> "charging_station",
      GUIDANCE_SIGN     |-> "guidance_sign",
      SAFE_EXIT         |-> "safe_exit",
      SPEED_BUMP        |-> "deceleration_zone",
      FIRE_EXTINGUISHER |-> "fire_extinguisher",
      LANE_LINE         |-> "ground_line",
      CONVEX_MIRROR     |-> "convex_mirror" ]

\* A LayoutElement: id is a sequence of character codes.
LayoutElement(id, type, x, y, width, height, rotation) ==
    [id |-> id, type |-> type, x |-> x, y |-> y,
     width |-> width, height |-> height, rotation |-> rotation]

\* The string 'global' (character codes of g, l, o, b, a, l).
GlobalId == <<103, 108, 111, 98, 97, 108>>

\* A violation pushed without a targetId has targetId undefined.
\* A message is the sequence of the pieces of its template string.
NoTarget == <<>>

ConstraintViolation(elementId, targetId, type, message) ==
    [elementId |-> elementId, targetId |-> targetId, type |-> type, message |-> message]

----------------------------------------------------------------------------
(* Sequence helpers standing for Array.prototype.map/filter/some/forEach *)

Range(s) == {s[i] : i \in DOMAIN s}

\* concatenation of F(s[1]), F(s[2]), ... (a forEach that pushes)
FlatMap(F(_), s) ==
    LET f[i \in 0..Len(s)] == IF i = 0 THEN <<>> ELSE f[i - 1] \o F(s[i])
    IN  f[Len(s)]

Some(P(_), s) == \E i \in DOMAIN s : P(s[i])

Min2(a, b) == IF a < b THEN a ELSE b
Max2(a, b) == IF a > b THEN a ELSE b

\* JavaScript string comparison a < b on code-unit sequences
StrLess(a, b) ==
    \E k \in 1..(Min2(Len(a), Len(b)) + 1) :
        /\ \A j \in 1..(k - 1) : a[j] = b[j]
        /\ \/ (k > Len(a) /\ k <= Len(b))
           \/ (k <= Len(a) /\ k <= Len(b) /\ a[k] < b[k])

\* a >= b
StrGeq(a, b) == ~StrLess(a, b)

----------------------------------------------------------------------------
(* Exact trigonometry *)

\* the angle (about 53.13 degrees) with cos = 3/5 and sin = 4/5
Rot345 == 53

\* denominator of the cos/sin fractions
TrigDen == 5

\* scale of the points returned by getCorners
Scale == 2 * TrigDen

\* TrigDen * Math.cos(rotation * PI / 180)
CosN(rotation) ==
    CASE rotation = 0      -> TrigDen
      [] rotation = 90     -> 0
      [] rotation = 180    -> -TrigDen
      [] rotation = 270    -> 0
      [] rotation = Rot345 -> 3

\* TrigDen * Math.sin(rotation * PI / 180)
SinN(rotation) ==
    CASE rotation = 0      -> 0
      [] rotation = 90     -> TrigDen
      [] rotation = 180    -> 0
      [] rotation = 270    -> -TrigDen
      [] rotation = Rot345 -> 4

----------------------------------------------------------------------------
(* SPATIAL PARTITIONING SYSTEM: class SpatialGrid *)

\* constructor(cellSize = 100); validateLayout builds new SpatialGrid(100)
cellSize == 100

\* Math.floor(v / cellSize)
FloorDiv(v, d) == IF v >= 0 THEN v \div d ELSE -(((-v) + d - 1) \div d)

\* getKeysForElement: the cells of the UNROTATED box, x outer loop, y inner loop
getKeysForElement(el) ==
    LET startX == FloorDiv(el.x, cellSize)
        endX   == FloorDiv(el.x + el.width, cellSize)
        startY == FloorDiv(el.y, cellSize)
        endY   == FloorDiv(el.y + el.height, cellSize)
        nx     == IF endX >= startX THEN endX - startX + 1 ELSE 0
        ny     == IF endY >= startY THEN endY - startY + 1 ELSE 0
    IN  [k \in 1..(nx * ny) |->
            <<startX + ((k - 1) \div ny), startY + ((k - 1) % ny)>>]

\* The one non-finite number of the model: a field equal to Infinity stands
\* for the double Infinity (a JSON number such as 1e999 parses to it).  No
\* arithmetic is ever done on it: it is only compared for equality.
Infinity == 1000000000

\* the two loops of getKeysForElement end: endX is Infinity when width is,
\* and x <= endX then holds for ever; endY is Infinity when height is, and
\* the inner loop, entered when startX <= endX, never ends
GridLoopEnds(el) ==
    /\ el.width # Infinity
    /\ ~(/\ el.height = Infinity
         /\ FloorDiv(el.x, cellSize) <= FloorDiv(el.x + el.width, cellSize))

\* add(el): push el on the bucket of every key, creating missing buckets
add(g, el) ==
    LET keys == Range(getKeysForElement(el))
    IN  [key \in (DOMAIN g) \cup keys |->
            IF key \in keys
            THEN (IF key \in DOMAIN g THEN g[key] ELSE <<>>) \o <<el>>
            ELSE g[key]]

\* layout.elements.forEach(el => grid.add(el)) on a new grid
BuildGridOf(elements) ==
    LET f[i \in 0..Len(elements)] ==
            IF i = 0 THEN <<>> ELSE add(f[i - 1], elements[i])
    IN  f[Len(elements)]

\* a candidate list that keeps every bucket entry
SetAdd_Always(s, e) == Append(s, e)

\* candidates.add(candidate) on a Set kept in insertion order
SetAdd(s, e) == IF e \in Range(s) THEN s ELSE Append(s, e)

\* getPotentialCollisions(el): Array.from(candidates)
getPotentialCollisions(g, el) ==
    LET keys == getKeysForElement(el)
        cellOf(key) == IF key \in DOMAIN g THEN g[key] ELSE <<>>
        all  == FlatMap(cellOf, keys)
        f[i \in 0..Len(all)] ==
            IF i = 0 THEN <<>>
            ELSE IF all[i].id # el.id THEN SetAdd(f[i - 1], all[i]) ELSE f[i - 1]
    IN  f[Len(all)]

----------------------------------------------------------------------------
(* GEOMETRY UTILS *)

\* one corner p of el rotated about the centre; the result is Scale * point
\* a missing rotation read as a quarter turn
RotationOrZero_Quarter(el) == IF "rotation" \in DOMAIN el THEN el.rotation ELSE 90

\* (el.rotation || 0): rotation is optional (rotation?: number)
RotationOrZero(el) == IF "rotation" \in DOMAIN el THEN el.rotation ELSE 0

RotatePoint(el, px, py) ==
    LET cx == Scale * el.x + TrigDen * el.width     \* Scale * (x + width/2)
        cy == Scale * el.y + TrigDen * el.height
        dx == Scale * px - cx
        dy == Scale * py - cy
        c  == CosN(RotationOrZero(el))
        s  == SinN(RotationOrZero(el))
    IN  [x |-> cx + (dx * c - dy * s) \div TrigDen,
         y |-> cy + (dx * s + dy * c) \div TrigDen]

\* String(n) of an integer n, as character codes ('-' is 45, '0' is 48)
Digits(n) ==
    LET f[m \in 0..n] == IF m < 10 THEN <<48 + m>> ELSE Append(f[m \div 10], 48 + (m % 10))
    IN  f[n]

NumStr(n) == IF n < 0 THEN <<45>> \o Digits(-n) ELSE Digits(n)

\* `${el.id}_${el.x}_${el.y}_${el.width}_${el.height}_${el.rotation}` ('_' is 95)
\* a cache key that leaves the rotation out
cacheKey_NoRotation(el) ==
    el.id \o <<95>> \o NumStr(el.x) \o <<95>> \o NumStr(el.y) \o <<95>>
          \o NumStr(el.width) \o <<95>> \o NumStr(el.height)

\* ${el.rotation}: the number, or "undefined" when the field is missing
RotationStr(el) ==
    IF "rotation" \in DOMAIN el THEN NumStr(el.rotation)
    ELSE <<117, 110, 100, 101, 102, 105, 110, 101, 100>>

cacheKey(el) ==
    el.id \o <<95>> \o NumStr(el.x) \o <<95>> \o NumStr(el.y) \o <<95>>
          \o NumStr(el.width) \o <<95>> \o NumStr(el.height) \o <<95>>
          \o RotationStr(el)

\* the corners computed on a cache miss: TL, TR, BR, BL, each rotated
ComputeCorners(el) ==
    << RotatePoint(el, el.x,            el.y),
       RotatePoint(el, el.x + el.width, el.y),
       RotatePoint(el, el.x + el.width, el.y + el.height),
       RotatePoint(el, el.x,            el.y + el.height) >>

\* getCorners(el), the value returned: the cached entry when the key is present
getCorners(el) ==
    IF cacheKey(el) \in DOMAIN cornerCache
    THEN cornerCache[cacheKey(el)]
    ELSE ComputeCorners(el)

\* if (cornerCache.size > 2000) cornerCache.clear()
cacheLimit == 2000

\* getCorners(el), the effect on the cache: nothing on a hit; on a miss the
\* eviction test, then cornerCache.set(cacheKey, corners)
CachePut(cache, el) ==
    LET key == cacheKey(el)
        base == IF Cardinality(DOMAIN cache) > cacheLimit THEN <<>> ELSE cache
    IN  IF key \in DOMAIN cache THEN cache
        ELSE [k \in (DOMAIN base) \cup {key} |->
                 IF k = key THEN ComputeCorners(el) ELSE base[k]]

\* the cache after getCorners was called on calls[1], calls[2], ...
CacheAfter(cache, calls) ==
    LET f[i \in 0..Len(calls)] == IF i = 0 THEN cache ELSE CachePut(f[i - 1], calls[i])
    IN  f[Len(calls)]

\* the projections of polygon p on the normal (nx, ny)
Projections(p, nx, ny) == {nx * p[i].x + ny * p[i].y : i \in DOMAIN p}

SetMin(S) == CHOOSE m \in S : \A v \in S : m <= v
SetMax(S) == CHOOSE m \in S : \A v \in S : m >= v

\* separation with touching projections counted as separated (<= for <)
Separates_Closed(polygon, j, a, b) ==
    LET k  == (j % Len(polygon)) + 1
        nx == polygon[k].y - polygon[j].y
        ny == polygon[j].x - polygon[k].x
        pa == Projections(a, nx, ny)
        pb == Projections(b, nx, ny)
    IN  /\ ~(nx = 0 /\ ny = 0)
        /\ (SetMax(pa) <= SetMin(pb) \/ SetMax(pb) <= SetMin(pa))

\* separation with every axis-parallel normal skipped (nx === 0 || ny === 0)
Separates_SkipAxis(polygon, j, a, b) ==
    LET k  == (j % Len(polygon)) + 1
        nx == polygon[k].y - polygon[j].y
        ny == polygon[j].x - polygon[k].x
        pa == Projections(a, nx, ny)
        pb == Projections(b, nx, ny)
    IN  /\ ~(nx = 0 \/ ny = 0)
        /\ (SetMax(pa) < SetMin(pb) \/ SetMax(pb) < SetMin(pa))

\* the normal of edge j of polygon separates a and b (maxA < minB || maxB < minA);
\* a zero normal is skipped (continue)
Separates(polygon, j, a, b) ==
    LET k  == (j % Len(polygon)) + 1
        nx == polygon[k].y - polygon[j].y
        ny == polygon[j].x - polygon[k].x
        pa == Projections(a, nx, ny)
        pb == Projections(b, nx, ny)
    IN  /\ ~(nx = 0 /\ ny = 0)
        /\ (SetMax(pa) < SetMin(pb) \/ SetMax(pb) < SetMin(pa))

\* SAT over the edge normals of a only (the loop over polygons stops after a)
isPolygonsIntersecting_NormalsOfA(a, b) ==
    IF Len(a) < 3 \/ Len(b) < 3 THEN FALSE
    ELSE \A j \in DOMAIN a : ~Separates(a, j, a, b)

\* isPolygonsIntersecting(a, b): SAT over the edge normals of a, then of b
isPolygonsIntersecting(a, b) ==
    IF Len(a) < 3 \/ Len(b) < 3 THEN FALSE
    ELSE /\ \A j \in DOMAIN a : ~Separates(a, j, a, b)
         /\ \A j \in DOMAIN b : ~Separates(b, j, a, b)

\* const pad = 2 in isOverlapping
pad == 2

\* Fast AABB check first, on the unrotated boxes
FastAABB(road, item) ==
    /\ item.x + item.width >= road.x - pad
    /\ item.x <= road.x + road.width + pad
    /\ item.y + item.height >= road.y - pad
    /\ item.y <= road.y + road.height + pad

\* isOverlapping(road, item): padded AABB test, then SAT
isOverlapping(road, item) ==
    IF ~FastAABB(road, item)
    THEN FALSE
    ELSE isPolygonsIntersecting(getCorners(road), getCorners(item))

isTouching(a, b) == isPolygonsIntersecting(getCorners(a), getCorners(b))

\* null of getIntersectionBox
NoBox == [x |-> 0, y |-> 0, width |-> 0, height |-> 0]

\* getIntersectionBox(r1, r2): intersection of the unrotated boxes, or null
getIntersectionBox(r1, r2) ==
    LET x1 == Max2(r1.x, r2.x)
        y1 == Max2(r1.y, r2.y)
        x2 == Min2(r1.x + r1.width, r2.x + r2.width)
        y2 == Min2(r1.y + r1.height, r2.y + r2.height)
    IN  IF x1 < x2 /\ y1 < y2
        THEN [x |-> x1, y |-> y1, width |-> x2 - x1, height |-> y2 - y1]
        ELSE NoBox

----------------------------------------------------------------------------
(* validateLayout: the passes, each as the list of violations it pushes *)

Filter(P(_), s) == SelectSeq(s, P)

\* isOutside with the boundary counted as outside (<=, >= for <, >)
isOutside_Closed(corners, lay) ==
    \E i \in DOMAIN corners :
        \/ corners[i].x <= 0
        \/ corners[i].x >= Scale * lay.width
        \/ corners[i].y <= 0
        \/ corners[i].y >= Scale * lay.height

\* corners.some(p => p.x < 0 || p.x > layout.width || p.y < 0 || p.y > layout.height)
isOutside(corners, lay) ==
    \E i \in DOMAIN corners :
        \/ corners[i].x < 0
        \/ corners[i].x > Scale * lay.width
        \/ corners[i].y < 0
        \/ corners[i].y > Scale * lay.height

\* Quick AABB check first: the unrotated box leaves the canvas
QuickAABB(el, lay) ==
    \/ el.x < 0
    \/ el.x + el.width > lay.width
    \/ el.y < 0
    \/ el.y + el.height > lay.height

\* 1. Check Out of Bounds
OutOfBoundsOf(el, lay) ==
    IF QuickAABB(el, lay) /\ isOutside(getCorners(el), lay)
    THEN <<ConstraintViolation(el.id, NoTarget, "out_of_bounds",
                               <<"Element is outside boundary.">>)>>
    ELSE <<>>

BoundsPass(lay) ==
    LET one(el) == OutOfBoundsOf(el, lay) IN FlatMap(one, lay.elements)

solidTypes ==
    { ElementType.PARKING_SPACE, ElementType.PILLAR, ElementType.WALL,
      ElementType.STAIRCASE, ElementType.ELEVATOR, ElementType.ROAD,
      ElementType.RAMP }

\* the pair is skipped only when the two ids are equal (=== for >=)
SkipById_SelfOnly(el1, el2) == el1.id = el2.id

\* if (el1.id >= el2.id) return;  Prevent double checking
SkipById(el1, el2) == StrGeq(el1.id, el2.id)

\* the skip table without its last line (el2 pillar, el1 wall)
SkipByType_OneOrder(el1, el2) ==
    \/ (el1.type = ElementType.WALL /\ el2.type = ElementType.WALL)
    \/ (el1.type = ElementType.ROAD /\ el2.type = ElementType.ROAD)
    \/ (el1.type = ElementType.PILLAR /\ el2.type = ElementType.WALL)

\* Same skip logic as before: wall-wall, road-road, pillar-wall
SkipByType(el1, el2) ==
    \/ (el1.type = ElementType.WALL /\ el2.type = ElementType.WALL)
    \/ (el1.type = ElementType.ROAD /\ el2.type = ElementType.ROAD)
    \/ (el1.type = ElementType.PILLAR /\ el2.type = ElementType.WALL)
    \/ (el2.type = ElementType.PILLAR /\ el1.type = ElementType.WALL)

IsRampRoad(el1, el2) ==
    \/ (el1.type = ElementType.RAMP /\ el2.type = ElementType.ROAD)
    \/ (el2.type = ElementType.RAMP /\ el1.type = ElementType.ROAD)

\* the strict check with the threshold included (>= 2 for > 2)
RampRoadOverlap_AtLeast2(el1, el2) ==
    LET intersection == getIntersectionBox(el1, el2)
    IN  intersection # NoBox /\ intersection.width >= 2 /\ intersection.height >= 2

\* Ramp/Road Strict Check: intersection && width > 2 && height > 2
RampRoadOverlap(el1, el2) ==
    LET intersection == getIntersectionBox(el1, el2)
    IN  intersection # NoBox /\ intersection.width > 2 /\ intersection.height > 2

\* Broad phase dist check: distSq < (r1 + r2)^2, on the x, y fields
DistCheck(el1, el2) ==
    LET r1 == Max2(el1.width, el1.height)
        r2 == Max2(el2.width, el2.height)
        distSq == (el1.x - el2.x) * (el1.x - el2.x) + (el1.y - el2.y) * (el1.y - el2.y)
    IN  distSq < (r1 + r2) * (r1 + r2)

\* the body without the test of el2's kind (!solidTypes.has(el2.type))
OverlapOfPair_AnyCandidate(el1, el2) ==
    IF SkipById(el1, el2) THEN <<>>
    ELSE IF SkipByType(el1, el2) THEN <<>>
    ELSE IF IsRampRoad(el1, el2)
         THEN IF RampRoadOverlap(el1, el2)
              THEN <<ConstraintViolation(el1.id, el2.id, "overlap",
                                         <<"Ramp and Road must not overlap.">>)>>
              ELSE <<>>
    ELSE IF DistCheck(el1, el2) /\ isPolygonsIntersecting(getCorners(el1), getCorners(el2))
         THEN <<ConstraintViolation(el1.id, el2.id, "overlap",
                                    <<el1.type, " overlaps with ", el2.type>>)>>
         ELSE <<>>

\* the body of candidates.forEach(el2 => ...) for one pair
OverlapOfPair(el1, el2) ==
    IF SkipById(el1, el2) THEN <<>>
    ELSE IF el2.type \notin solidTypes THEN <<>>
    ELSE IF SkipByType(el1, el2) THEN <<>>
    ELSE IF IsRampRoad(el1, el2)
         THEN IF RampRoadOverlap(el1, el2)
              THEN <<ConstraintViolation(el1.id, el2.id, "overlap",
                                         <<"Ramp and Road must not overlap.">>)>>
              ELSE <<>>
    ELSE IF DistCheck(el1, el2) /\ isPolygonsIntersecting(getCorners(el1), getCorners(el2))
         THEN <<ConstraintViolation(el1.id, el2.id, "overlap",
                                    <<el1.type, " overlaps with ", el2.type>>)>>
         ELSE <<>>

\* 2. Overlap checks using the spatial grid
OverlapPass(lay, g) ==
    LET isSolid(e) == e.type \in solidTypes
        solids == Filter(isSolid, lay.elements)
        ofEl1(el1) ==
            LET ofEl2(el2) == OverlapOfPair(el1, el2)
            IN  FlatMap(ofEl2, getPotentialCollisions(g, el1))
    IN  FlatMap(ofEl1, solids)

itemsOnRoad ==
    { ElementType.GUIDANCE_SIGN, ElementType.SIDEWALK, ElementType.SPEED_BUMP,
      ElementType.LANE_LINE, ElementType.CONVEX_MIRROR }

itemsNotOnRoad ==
    { ElementType.STAIRCASE, ElementType.ELEVATOR, ElementType.SAFE_EXIT,
      ElementType.FIRE_EXTINGUISHER, ElementType.ENTRANCE, ElementType.EXIT,
      ElementType.RAMP }

\* grid.getPotentialCollisions(item).filter(c => c.type === t)
Nearby(g, item, t) ==
    LET isT(c) == c.type = t IN Filter(isT, getPotentialCollisions(g, item))

\* nearbyRoads.some(road => isOverlapping(road, item))
OnNearbyRoad(g, item) ==
    LET over(road) == isOverlapping(road, item)
    IN  Some(over, Nearby(g, item, ElementType.ROAD))

\* 3. Placement constraints, the body of layout.elements.forEach(item => ...)
PlacementOf(g, item) ==
    (IF item.type \in itemsOnRoad /\ ~OnNearbyRoad(g, item)
     THEN <<ConstraintViolation(item.id, NoTarget, "placement_error",
                                <<item.type, " must be placed on a Driving Lane.">>)>>
     ELSE <<>>)
    \o
    (IF /\ item.type \in itemsNotOnRoad
        /\ OnNearbyRoad(g, item)
        /\ item.type # ElementType.SIDEWALK
     THEN <<ConstraintViolation(item.id, NoTarget, "placement_error",
                                <<item.type, " must NOT overlap a Driving Lane.">>)>>
     ELSE <<>>)

PlacementPass(lay, g) ==
    LET one(item) == PlacementOf(g, item) IN FlatMap(one, lay.elements)

\* nearby.some(o => isTouching(o, el)) over the grid candidates of type t
TouchesNearby(g, el, t) ==
    LET touch(o) == isTouching(o, el) IN Some(touch, Nearby(g, el, t))

\* Gates -> Ramps
GateOf(g, gate) ==
    IF ~TouchesNearby(g, gate, ElementType.RAMP)
    THEN <<ConstraintViolation(gate.id, NoTarget, "connectivity_error",
                               <<gate.type, " must be adjacent to a Ramp.">>)>>
    ELSE <<>>

\* Ramps -> Roads
RampOf(g, ramp) ==
    IF ~TouchesNearby(g, ramp, ElementType.ROAD)
    THEN <<ConstraintViolation(ramp.id, NoTarget, "connectivity_error",
                               <<"Ramp must connect to a Driving Lane.">>)>>
    ELSE <<>>

AdjacencyPass(lay, g) ==
    LET isGate(e) == e.type = ElementType.ENTRANCE \/ e.type = ElementType.EXIT
        isRamp(e) == e.type = ElementType.RAMP
        gate(e) == GateOf(g, e)
        ramp(e) == RampOf(g, e)
    IN  FlatMap(gate, Filter(isGate, lay.elements))
        \o FlatMap(ramp, Filter(isRamp, lay.elements))

navigableTypes ==
    { ElementType.ROAD, ElementType.RAMP, ElementType.ENTRANCE, ElementType.EXIT }

Navigables(lay) ==
    LET isNav(e) == e.type \in navigableTypes IN Filter(isNav, lay.elements)

Entrances(lay) ==
    LET isEnt(e) == e.type = ElementType.ENTRANCE IN Filter(isEnt, lay.elements)

Exits(lay) ==
    LET isExit(e) == e.type = ElementType.EXIT IN Filter(isExit, lay.elements)

\* if (el1.id < el2.id) and the polygons intersect: an edge is pushed both ways
EdgeTest(el1, el2) ==
    /\ StrLess(el1.id, el2.id)
    /\ isPolygonsIntersecting(getCorners(el1), getCorners(el2))

\* the pairs <<el1.id, el2.id>> for which both pushes happen, in loop order
EdgePushes(lay, g) ==
    LET ofEl1(el1) ==
            LET isNav(e) == e.type \in navigableTypes
                ofEl2(el2) == IF EdgeTest(el1, el2) THEN <<<<el1.id, el2.id>>>> ELSE <<>>
            IN  FlatMap(ofEl2, Filter(isNav, getPotentialCollisions(g, el1)))
    IN  FlatMap(ofEl1, Navigables(lay))

\* adj after graph building: adj.get(id) for every navigable id
BuildAdj(lay, g) ==
    LET pushes == EdgePushes(lay, g)
        ids == {e.id : e \in Range(Navigables(lay))}
        listOf(id) ==
            LET one(p) == IF p[1] = id THEN <<p[2]>>
                          ELSE IF p[2] = id THEN <<p[1]>> ELSE <<>>
            IN  FlatMap(one, pushes)
    IN  [id \in ids |-> listOf(id)]

\* layout.elements.find(e => e.id === curr)?.type
TypeOfId(lay, id) ==
    IF \E i \in DOMAIN lay.elements : lay.elements[i].id = id
    THEN lay.elements[CHOOSE i \in DOMAIN lay.elements :
                          /\ lay.elements[i].id = id
                          /\ \A j \in 1..(i - 1) : lay.elements[j].id # id].type
    ELSE "undefined"

\* the global checks with the entrance check dropped when an exit is missing
GlobalChecksOf_ElseIf(lay) ==
    IF Len(Exits(lay)) < 1
    THEN <<ConstraintViolation(GlobalId, NoTarget, "connectivity_error",
                               <<"Must have at least one Exit.">>)>>
    ELSE IF Len(Entrances(lay)) < 1
    THEN <<ConstraintViolation(GlobalId, NoTarget, "connectivity_error",
                               <<"Must have at least one Entrance.">>)>>
    ELSE <<>>

\* 7. Global Checks
GlobalChecksOf(lay) ==
    (IF Len(Entrances(lay)) < 1
     THEN <<ConstraintViolation(GlobalId, NoTarget, "connectivity_error",
                                <<"Must have at least one Entrance.">>)>>
     ELSE <<>>)
    \o
    (IF Len(Exits(lay)) < 1
     THEN <<ConstraintViolation(GlobalId, NoTarget, "connectivity_error",
                                <<"Must have at least one Exit.">>)>>
     ELSE <<>>)

----------------------------------------------------------------------------
(* The getCorners calls of each pass, in call order.  A pass reads the     *)
(* cache through getCorners and leaves it as CacheAfter its calls.  The    *)
(* elements of one layout have pairwise distinct cache keys and are fewer  *)
(* than cacheLimit, so an entry written during a pass is the entry of the  *)
(* element that wrote it.                                                  *)

\* the prefix of s visited by s.some(P): up to the first element satisfying P
UpToFirst(P(_), s) ==
    IF \E i \in DOMAIN s : P(s[i])
    THEN SubSeq(s, 1, CHOOSE i \in DOMAIN s : P(s[i]) /\ \A j \in 1..(i - 1) : ~P(s[j]))
    ELSE s

BoundsCalls(lay) ==
    LET one(el) == IF QuickAABB(el, lay) THEN <<el>> ELSE <<>>
    IN  FlatMap(one, lay.elements)

\* getCorners(el1), getCorners(el2) once the dist check passed
OverlapCallsOfPair(el1, el2) ==
    IF SkipById(el1, el2) THEN <<>>
    ELSE IF el2.type \notin solidTypes THEN <<>>
    ELSE IF SkipByType(el1, el2) THEN <<>>
    ELSE IF IsRampRoad(el1, el2) THEN <<>>
    ELSE IF DistCheck(el1, el2) THEN <<el1, el2>>
    ELSE <<>>

OverlapCalls(lay, g) ==
    LET isSolid(e) == e.type \in solidTypes
        ofEl1(el1) ==
            LET ofEl2(el2) == OverlapCallsOfPair(el1, el2)
            IN  FlatMap(ofEl2, getPotentialCollisions(g, el1))
    IN  FlatMap(ofEl1, Filter(isSolid, lay.elements))

\* the calls of nearbyRoads.some(road => isOverlapping(road, item))
OnNearbyRoadCalls(g, item) ==
    LET over(road) == isOverlapping(road, item)
        one(road) == IF FastAABB(road, item) THEN <<road, item>> ELSE <<>>
    IN  FlatMap(one, UpToFirst(over, Nearby(g, item, ElementType.ROAD)))

PlacementCalls(lay, g) ==
    LET one(item) ==
            (IF item.type \in itemsOnRoad THEN OnNearbyRoadCalls(g, item) ELSE <<>>)
            \o (IF item.type \in itemsNotOnRoad THEN OnNearbyRoadCalls(g, item) ELSE <<>>)
    IN  FlatMap(one, lay.elements)

\* the calls of nearby.some(o => isTouching(o, el))
TouchesNearbyCalls(g, el, t) ==
    LET touch(o) == isTouching(o, el)
        one(o) == <<o, el>>
    IN  FlatMap(one, UpToFirst(touch, Nearby(g, el, t)))

AdjacencyCalls(lay, g) ==
    LET isGate(e) == e.type = ElementType.ENTRANCE \/ e.type = ElementType.EXIT
        isRamp(e) == e.type = ElementType.RAMP
        gate(e) == TouchesNearbyCalls(g, e, ElementType.RAMP)
        ramp(e) == TouchesNearbyCalls(g, e, ElementType.ROAD)
    IN  FlatMap(gate, Filter(isGate, lay.elements))
        \o FlatMap(ramp, Filter(isRamp, lay.elements))

GraphCalls(lay, g) ==
    LET ofEl1(el1) ==
            LET isNav(e) == e.type \in navigableTypes
                ofEl2(el2) == IF StrLess(el1.id, el2.id) THEN <<el1, el2>> ELSE <<>>
            IN  FlatMap(ofEl2, Filter(isNav, getPotentialCollisions(g, el1)))
    IN  FlatMap(ofEl1, Navigables(lay))

----------------------------------------------------------------------------
(* validateLayout as a state machine *)

\* the violation of a failed BFS, reported layout-wide instead of on the entrance
NoPathViolation_Global(ent) ==
    ConstraintViolation(GlobalId, NoTarget, "connectivity_error",
                        <<"No drivable path exists from this Entrance to any Exit.">>)

\* the violation of a failed BFS
NoPathViolation(ent) ==
    ConstraintViolation(ent.id, NoTarget, "connectivity_error",
                        <<"No drivable path exists from this Entrance to any Exit.">>)

\* the grid built after reversing layout.elements in place
\* (layout.elements.reverse().forEach(el => grid.add(el)))
BuildGrid_ReversesInput ==
    /\ pc = "start"
    /\ \A i \in DOMAIN layout.elements : GridLoopEnds(layout.elements[i])
    /\ layout' = [layout EXCEPT !.elements =
                      [i \in DOMAIN layout.elements |->
                          layout.elements[Len(layout.elements) + 1 - i]]]
    /\ grid' = BuildGridOf(layout'.elements)
    /\ pc' = "bounds"
    /\ UNCHANGED <<violations, adj, entIdx, visited, queue, dequeued, foundExit,
                   cornerCache, session>>

\* const grid = new SpatialGrid(100); layout.elements.forEach(el => grid.add(el))
BuildGrid ==
    /\ pc = "start"
    /\ \A i \in DOMAIN layout.elements : GridLoopEnds(layout.elements[i])
    /\ grid' = BuildGridOf(layout.elements)
    /\ pc' = "bounds"
    /\ UNCHANGED <<layout, violations, adj, entIdx, visited, queue, dequeued, foundExit,
                   cornerCache, session>>

\* layout.elements.forEach(el => grid.add(el)) reaches an element whose key
\* loop never ends: the elements before it are in the grid, keys.push goes on
\* until the engine gives up, and validateLayout returns nothing
BuildGridNoReturn ==
    /\ pc = "start"
    /\ \E i \in DOMAIN layout.elements :
          /\ ~GridLoopEnds(layout.elements[i])
          /\ \A j \in 1..(i - 1) : GridLoopEnds(layout.elements[j])
          /\ grid' = BuildGridOf(SubSeq(layout.elements, 1, i - 1))
    /\ pc' = "no_return"
    /\ UNCHANGED <<layout, violations, adj, entIdx, visited, queue, dequeued, foundExit,
                   cornerCache, session>>

\* 1. Check Out of Bounds
CheckOutOfBounds ==
    /\ pc = "bounds"
    /\ violations' = violations \o BoundsPass(layout)
    /\ cornerCache' = CacheAfter(cornerCache, BoundsCalls(layout))
    /\ pc' = "overlap"
    /\ UNCHANGED <<layout, grid, adj, entIdx, visited, queue, dequeued, foundExit, session>>

\* 2. Optimized Overlap Checks using Spatial Grid
CheckOverlaps ==
    /\ pc = "overlap"
    /\ violations' = violations \o OverlapPass(layout, grid)
    /\ cornerCache' = CacheAfter(cornerCache, OverlapCalls(layout, grid))
    /\ pc' = "placement"
    /\ UNCHANGED <<layout, grid, adj, entIdx, visited, queue, dequeued, foundExit, session>>

\* 3. Placement Constraints
CheckPlacement ==
    /\ pc = "placement"
    /\ violations' = violations \o PlacementPass(layout, grid)
    /\ cornerCache' = CacheAfter(cornerCache, PlacementCalls(layout, grid))
    /\ pc' = "adjacency"
    /\ UNCHANGED <<layout, grid, adj, entIdx, visited, queue, dequeued, foundExit, session>>

\* Gates -> Ramps, Ramps -> Roads
CheckAdjacency ==
    /\ pc = "adjacency"
    /\ violations' = violations \o AdjacencyPass(layout, grid)
    /\ cornerCache' = CacheAfter(cornerCache, AdjacencyCalls(layout, grid))
    /\ pc' = "graph"
    /\ UNCHANGED <<layout, grid, adj, entIdx, visited, queue, dequeued, foundExit, session>>

\* if (navigables.length > 0) { build adj; entrances.forEach(...) }
BuildGraph ==
    /\ pc = "graph"
    /\ IF Len(Navigables(layout)) > 0
       THEN /\ adj' = BuildAdj(layout, grid)
            /\ cornerCache' = CacheAfter(cornerCache, GraphCalls(layout, grid))
            /\ pc' = IF Len(Entrances(layout)) > 0 THEN "bfs" ELSE "global"
       ELSE /\ adj' = adj
            /\ cornerCache' = cornerCache
            /\ pc' = "global"
    /\ entIdx' = 1
    /\ UNCHANGED <<layout, violations, grid, visited, queue, dequeued, foundExit, session>>

\* entrances.forEach(ent => { visited = {ent.id}; queue = [ent.id]; foundExit = false
BfsBegin ==
    /\ pc = "bfs"
    /\ LET ent == Entrances(layout)[entIdx]
       IN  /\ visited' = {ent.id}
           /\ queue' = <<ent.id>>
    /\ dequeued' = <<>>
    /\ foundExit' = FALSE
    /\ pc' = "bfsloop"
    /\ UNCHANGED <<layout, violations, grid, adj, entIdx, cornerCache, session>>

\* the neighbours pushed when the loop does not consult the visited set
PushNew_NoVisitedTest(neighbors, seen) == neighbors

\* the neighbours pushed by for (const n of neighbors) if (!visited.has(n)) ...
PushNew(neighbors, seen) ==
    LET f[i \in 0..Len(neighbors)] ==
            IF i = 0 THEN <<>>
            ELSE IF neighbors[i] \in seen \cup Range(f[i - 1])
                 THEN f[i - 1] ELSE Append(f[i - 1], neighbors[i])
    IN  f[Len(neighbors)]

\* one iteration of while (queue.length > 0)
BfsStep ==
    /\ pc = "bfsloop"
    /\ ~foundExit
    /\ Len(queue) > 0
    /\ LET curr == Head(queue)
       IN  /\ dequeued' = Append(dequeued, curr)
           /\ IF TypeOfId(layout, curr) = ElementType.EXIT
              THEN /\ foundExit' = TRUE
                   /\ queue' = Tail(queue)
                   /\ visited' = visited
              ELSE LET neighbors == IF curr \in DOMAIN adj THEN adj[curr] ELSE <<>>
                       new == PushNew(neighbors, visited)
                   IN  /\ foundExit' = FALSE
                       /\ queue' = Tail(queue) \o new
                       /\ visited' = visited \cup Range(new)
    /\ UNCHANGED <<layout, pc, violations, grid, adj, entIdx, cornerCache, session>>

\* after the loop: if (!foundExit && exits.length > 0) push; next entrance
BfsEnd ==
    /\ pc = "bfsloop"
    /\ (foundExit \/ Len(queue) = 0)
    /\ violations' =
          IF ~foundExit /\ Len(Exits(layout)) > 0
          THEN Append(violations, NoPathViolation(Entrances(layout)[entIdx]))
          ELSE violations
    /\ entIdx' = entIdx + 1
    /\ pc' = IF entIdx < Len(Entrances(layout)) THEN "bfs" ELSE "global"
    /\ UNCHANGED <<layout, grid, adj, visited, queue, dequeued, foundExit, cornerCache, session>>

\* 7. Global Checks; return violations
GlobalChecks ==
    /\ pc = "global"
    /\ violations' = violations \o GlobalChecksOf(layout)
    /\ pc' = "done"
    /\ UNCHANGED <<layout, grid, adj, entIdx, visited, queue, dequeued, foundExit,
                   cornerCache, session>>

Next ==
    \/ BuildGrid
    \/ CheckOutOfBounds
    \/ CheckOverlaps
    \/ CheckPlacement
    \/ CheckAdjacency
    \/ BuildGraph
    \/ BfsBegin
    \/ BfsStep
    \/ BfsEnd
    \/ GlobalChecks

----------------------------------------------------------------------------
(* The layouts validated: bounded families of inputs *)

\* canvas of every layout of the model
LayoutWidth == 200
LayoutHeight == 100

\* number of offset steps of the moving element of a family
MaxOffset == 3

\* ids '1', '10', '2', '3', '4', '6': '1' < '10' < '2' as strings
Id1  == <<49>>
Id10 == <<49, 48>>
Id2  == <<50>>
Id3  == <<51>>
Id4  == <<52>>
Id6  == <<54>>

Rotations == {0, 90, 180, 270, Rot345}

ParkingLayout(elements) ==
    [width |-> LayoutWidth, height |-> LayoutHeight, elements |-> elements]

\* one element near a corner of the canvas, any rotation
SingleLayouts ==
    { ParkingLayout(<<LayoutElement(Id1, t, x, y, wh[1], wh[2], r)>>) :
        t \in {ElementType.WALL, ElementType.ENTRANCE},
        x \in {-5, -2, 0, LayoutWidth - 20, LayoutWidth - 10},
        y \in {-5, -2, 0, LayoutHeight - 20, LayoutHeight - 10},
        wh \in {<<10, 10>>, <<20, 10>>, <<10, 20>>},
        r \in Rotations }

\* a 20x20 element and a second one sliding along its diagonal
PairLayouts ==
    { ParkingLayout(<< LayoutElement(ids[1], ta, 40, 40, 20, 20, 0),
                       LayoutElement(ids[2], tb, 40 + 6 * k, 40 + 6 * k, wh[1], wh[2], r) >>) :
        ids \in {<<Id1, Id2>>, <<Id2, Id1>>, <<Id1, Id10>>, <<Id10, Id2>>},
        ta \in {ElementType.PARKING_SPACE, ElementType.WALL, ElementType.ROAD,
                ElementType.RAMP},
        tb \in {ElementType.PARKING_SPACE, ElementType.PILLAR, ElementType.WALL,
                ElementType.ROAD, ElementType.GUIDANCE_SIGN},
        k \in 0..MaxOffset,
        wh \in {<<4, 4>>, <<20, 10>>},
        r \in {0, 90, Rot345} }

\* three solids on top of each other across the cell boundary x = 100, the ids
\* given in every order
TripleLayouts ==
    { ParkingLayout(<< LayoutElement(ids[1], ta, 90, 40, 20, 20, 0),
                       LayoutElement(ids[2], tb, 95, 45, 20, 10, r),
                       LayoutElement(ids[3], tc, 100, 40, 10, 20, 0) >>) :
        ids \in {<<Id1, Id10, Id2>>, <<Id1, Id2, Id10>>, <<Id10, Id1, Id2>>,
                 <<Id10, Id2, Id1>>, <<Id2, Id1, Id10>>, <<Id2, Id10, Id1>>},
        ta \in {ElementType.PARKING_SPACE, ElementType.PILLAR},
        tb \in {ElementType.PARKING_SPACE, ElementType.PILLAR},
        tc \in {ElementType.PARKING_SPACE, ElementType.STAIRCASE},
        r \in {0, Rot345} }

\* a road whose unrotated box ends at the cell boundary x = 100, and an item
RoadItemLayouts ==
    { ParkingLayout(<< LayoutElement(ids[1], ElementType.ROAD, 79, 0, 20, 100, rr),
                       LayoutElement(ids[2], t, 60 + 20 * k, y, 5, 5, 0) >>) :
        ids \in {<<Id1, Id2>>, <<Id2, Id1>>},
        rr \in {0, 90},
        t \in {ElementType.GUIDANCE_SIGN, ElementType.SIDEWALK, ElementType.STAIRCASE,
               ElementType.ENTRANCE, ElementType.RAMP},
        k \in 0..MaxOffset,
        y \in {0, 45} }

\* the choices of one slot of the chain: absent (<<>>) or one of the elements
Slot(S) == {<<>>} \cup {<<e>> : e \in S}

\* entrance - ramp - road - ramp - exit in a row at height y0, each slot optional,
\* the first ramp possibly detached, the road possibly given as a box rotated by
\* 90 degrees (it then covers x in 18..122, y in y0+4..y0+24), and a second,
\* isolated entrance
ChainAt(y0) ==
    { ParkingLayout(e1 \o r1 \o rd \o r2 \o x1 \o e2) :
        e1 \in Slot({LayoutElement(Id1, ElementType.ENTRANCE, 0, y0, 10, 10, 0)}),
        r1 \in Slot({LayoutElement(Id2, ElementType.RAMP, 10, y0, 10, 10, 0),
                     LayoutElement(Id2, ElementType.RAMP, 10, y0 + 12, 10, 10, 0)}),
        rd \in Slot({LayoutElement(Id3, ElementType.ROAD, 20, y0, 100, 20, 0),
                     LayoutElement(Id3, ElementType.ROAD, 60, y0 - 38, 20, 104, 90)}),
        r2 \in Slot({LayoutElement(Id4, ElementType.RAMP, 120, y0, 10, 10, 0)}),
        x1 \in Slot({LayoutElement(Id10, ElementType.EXIT, 130, y0, 10, 10, 0)}),
        e2 \in Slot({LayoutElement(Id6, ElementType.ENTRANCE, 0, 70, 10, 10, 0)}) }

ChainLayouts == ChainAt(0) \cup ChainAt(40)

\* an entrance, two roads and an exit that touch each other pairwise along an
\* edge or at a corner (a navigation graph with cycles), each slot optional
RingLayouts ==
    { ParkingLayout(e1 \o rd1 \o rd2 \o x1) :
        e1 \in Slot({LayoutElement(Id1, ElementType.ENTRANCE, 0, 0, 10, 10, 0)}),
        rd1 \in Slot({LayoutElement(Id2, ElementType.ROAD, 10, 0, 50, 10, 0)}),
        rd2 \in Slot({LayoutElement(Id3, ElementType.ROAD, 0, 10, 60, 10, 0)}),
        x1 \in Slot({LayoutElement(Id4, ElementType.EXIT, 60, 0, 10, 10, 0)}) }

Layouts ==
    SingleLayouts \cup PairLayouts \cup TripleLayouts \cup RoadItemLayouts
        \cup ChainLayouts \cup RingLayouts

\* no geometry function has been called directly
NoCall == [fn |-> "none"]

\* ensureValidLayout is not running
NoEnsure == [at |-> "none"]

\* the module was just loaded (empty cornerCache) and validateLayout is
\* entered for the first time, on a layout of S
FirstCallOn(S) ==
    /\ layout \in S
    /\ pc = "start"
    /\ violations = <<>>
    /\ grid = <<>>
    /\ adj = <<>>
    /\ entIdx = 1
    /\ visited = {}
    /\ queue = <<>>
    /\ dequeued = <<>>
    /\ foundExit = FALSE
    /\ cornerCache = <<>>
    /\ call = NoCall
    /\ results = <<>>
    /\ ncalls = 1
    /\ ens = NoEnsure

Init == FirstCallOn(Layouts)

Spec == Init /\ [][Next]_vars

----------------------------------------------------------------------------
(* validateLayout called again and again by one caller (ensureValidLayout  *)
(* validates the layout, each fixed layout and the stable snapshot): the   *)
(* corner cache is the module's and survives from call to call.            *)

\* number of validateLayout calls of one session
MaxCalls == 3

\* ids '5' and '7'
Id5 == <<53>>
Id7 == <<55>>

\* a kind outside the vocabulary of ElementType (type: ElementType | string)
UnknownKind == "decoration"

\* two solids that overlap
StackA ==
    << LayoutElement(Id1, ElementType.WALL, 40, 40, 20, 20, 0),
       LayoutElement(Id2, ElementType.PARKING_SPACE, 50, 50, 20, 10, 0) >>

\* the same ids with another geometry: the solids no longer overlap
StackB ==
    << LayoutElement(Id1, ElementType.WALL, 70, 40, 20, 20, 0),
       LayoutElement(Id2, ElementType.PARKING_SPACE, 50, 50, 20, 10, 90) >>

\* entrance - ramp - road - ramp - exit in a row, ids '1' and '2' used again
ChainRow ==
    << LayoutElement(Id1, ElementType.ENTRANCE, 0, 0, 10, 10, 0),
       LayoutElement(Id2, ElementType.RAMP, 10, 0, 10, 10, 0),
       LayoutElement(Id3, ElementType.ROAD, 20, 0, 100, 20, 0),
       LayoutElement(Id4, ElementType.RAMP, 120, 0, 10, 10, 0),
       LayoutElement(Id10, ElementType.EXIT, 130, 0, 10, 10, 0) >>

\* an element of unknown kind lying over the road of ChainRow and the wall of
\* StackA, and one that leaves the canvas
UnknownOver == LayoutElement(Id5, UnknownKind, 45, 10, 20, 40, Rot345)
UnknownOut  == LayoutElement(Id7, UnknownKind, -5, 45, 20, 10, 0)

\* every base alone, with UnknownOver in front, with UnknownOut behind, with both
CallLayouts ==
    { ParkingLayout(front \o base \o back) :
        front \in Slot({UnknownOver}),
        base \in {StackA, StackB, ChainRow},
        back \in Slot({UnknownOut}) }

InitCalls == FirstCallOn(CallLayouts)

\* the next call with the violations list kept from the call before (the list
\* declared once, outside validateLayout)
ValidateAgain_SharedList ==
    /\ pc = "done"
    /\ ncalls < MaxCalls
    /\ results' = Append(results, [layout |-> layout, violations |-> violations])
    /\ ncalls' = ncalls + 1
    /\ layout' \in CallLayouts
    /\ pc' = "start"
    /\ violations' = violations
    /\ grid' = <<>>
    /\ adj' = <<>>
    /\ entIdx' = 1
    /\ visited' = {}
    /\ queue' = <<>>
    /\ dequeued' = <<>>
    /\ foundExit' = FALSE
    /\ UNCHANGED <<cornerCache, call, ens>>

\* the caller keeps what the call returned and calls validateLayout again:
\* a new violations list and a new grid; cornerCache is not touched
ValidateAgain ==
    /\ pc = "done"
    /\ ncalls < MaxCalls
    /\ results' = Append(results, [layout |-> layout, violations |-> violations])
    /\ ncalls' = ncalls + 1
    /\ layout' \in CallLayouts
    /\ pc' = "start"
    /\ violations' = <<>>
    /\ grid' = <<>>
    /\ adj' = <<>>
    /\ entIdx' = 1
    /\ visited' = {}
    /\ queue' = <<>>
    /\ dequeued' = <<>>
    /\ foundExit' = FALSE
    /\ UNCHANGED <<cornerCache, call, ens>>

NextCalls ==
    \/ Next
    \/ ValidateAgain

SpecCalls == InitCalls /\ [][NextCalls]_vars

----------------------------------------------------------------------------
(* Layouts given with and without the optional rotation field *)

\* el as it is written when a rotation of 0 is left out
DropRotation(el) ==
    IF "rotation" \in DOMAIN el /\ el.rotation = 0
    THEN [f \in (DOMAIN el) \ {"rotation"} |-> el[f]]
    ELSE el

\* el with the missing rotation written as 0
FillRotation(el) ==
    IF "rotation" \in DOMAIN el THEN el
    ELSE [f \in (DOMAIN el) \cup {"rotation"} |-> IF f = "rotation" THEN 0 ELSE el[f]]

Dropped(lay) ==
    ParkingLayout([i \in DOMAIN lay.elements |-> DropRotation(lay.elements[i])])

Filled(lay) ==
    ParkingLayout([i \in DOMAIN lay.elements |-> FillRotation(lay.elements[i])])

\* the layouts of the successive calls, in both writings
RotationLayouts == CallLayouts \cup {Dropped(lay) : lay \in CallLayouts}

InitRotation == FirstCallOn(RotationLayouts)

\* the caller validates the same layout in the other writing
ValidateOtherWriting ==
    /\ pc = "done"
    /\ ncalls < MaxCalls
    /\ results' = Append(results, [layout |-> layout, violations |-> violations])
    /\ ncalls' = ncalls + 1
    /\ layout' = IF layout = Filled(layout) THEN Dropped(layout) ELSE Filled(layout)
    /\ pc' = "start"
    /\ violations' = <<>>
    /\ grid' = <<>>
    /\ adj' = <<>>
    /\ entIdx' = 1
    /\ visited' = {}
    /\ queue' = <<>>
    /\ dequeued' = <<>>
    /\ foundExit' = FALSE
    /\ UNCHANGED <<cornerCache, call, ens>>

NextRotation ==
    \/ Next
    \/ ValidateOtherWriting

SpecRotation == InitRotation /\ [][NextRotation]_vars

----------------------------------------------------------------------------
(* Layouts with malformed elements: width or height zero, negative or      *)
(* Infinity                                                                *)

\* a wall of width 0 standing in the parking space of StackA
ZeroWidthWalls ==
    {LayoutElement(Id5, ElementType.WALL, 52 + k, 45, 0, 10, 0) : k \in 0..MaxOffset}

MalformedElements ==
    ZeroWidthWalls \cup
    { LayoutElement(Id5, ElementType.PARKING_SPACE, 45, 60, 10, -15, 0),
      LayoutElement(Id7, ElementType.ENTRANCE, 5, 5, 0, 0, 0),
      LayoutElement(Id7, ElementType.SPEED_BUMP, 50, 10, 10, 0, 90),
      LayoutElement(Id5, ElementType.WALL, 55, 45, Infinity, 10, 0),
      LayoutElement(Id7, ElementType.PILLAR, 55, 45, 10, Infinity, 0) }

\* no element, two solids, or the chain, with at most one malformed element
\* in front or behind
MalformedLayouts ==
    { ParkingLayout(front \o base \o back) :
        front \in Slot(MalformedElements),
        base \in {<<>>, StackA, ChainRow},
        back \in Slot(MalformedElements) }
    \ { ParkingLayout(m \o base \o m2) :
          m \in {<<e>> : e \in MalformedElements},
          base \in {<<>>, StackA, ChainRow},
          m2 \in {<<e>> : e \in MalformedElements} }

InitMalformed == FirstCallOn(MalformedLayouts)

NextMalformed ==
    \/ Next
    \/ BuildGridNoReturn

SpecMalformed == InitMalformed /\ [][NextMalformed]_vars

----------------------------------------------------------------------------
(* The geometry functions called directly, on bounded sets of arguments *)

\* largest lattice coordinate of an argument
MaxCoord == 2

\* points of the polygons, in the units of getCorners
LatticePoints == {[x |-> Scale * i, y |-> Scale * j] : i \in 0..MaxCoord, j \in 0..1}

\* every vertex list of at most three lattice points: the empty list, single
\* points, segments, triangles, with repeated vertices (zero-length edges)
LatticePolygons == UNION {[1..n -> LatticePoints] : n \in 0..3}

\* unrotated rectangles with positive width and height
KernelRects(id) ==
    { LayoutElement(id, ElementType.WALL, x, y, w, h, 0) :
        x \in 0..MaxCoord, y \in 0..MaxCoord, w \in 1..2, h \in 1..2 }

BoxPolygons == {ComputeCorners(r) : r \in KernelRects(Id1)}

\* rectangles at every rotation of the model
RectPolygons ==
    { ComputeCorners(LayoutElement(Id1, ElementType.WALL, x, 0, 2, 1, r)) :
        x \in 0..1, r \in Rotations }

KernelPolygons == LatticePolygons \cup BoxPolygons \cup RectPolygons

validation == <<layout, pc, violations, grid, adj, entIdx, visited, queue, dequeued,
               foundExit>>

InitKernel ==
    /\ layout = ParkingLayout(<<>>)
    /\ pc = "kernel"
    /\ violations = <<>>
    /\ grid = <<>>
    /\ adj = <<>>
    /\ entIdx = 1
    /\ visited = {}
    /\ queue = <<>>
    /\ dequeued = <<>>
    /\ foundExit = FALSE
    /\ cornerCache = <<>>
    /\ call = NoCall
    /\ results = <<>>
    /\ ncalls = 0
    /\ ens = NoEnsure

\* isPolygonsIntersecting(a, b)
CallIsPolygonsIntersecting ==
    /\ pc = "kernel"
    /\ call = NoCall
    /\ \E a \in KernelPolygons, b \in KernelPolygons :
          call' = [fn |-> "isPolygonsIntersecting", a |-> a, b |-> b,
                   result |-> isPolygonsIntersecting(a, b)]
    /\ UNCHANGED <<validation, cornerCache, results, ncalls, ens>>

\* isTouching(a, b): getCorners of both, then isPolygonsIntersecting
CallIsTouching ==
    /\ pc = "kernel"
    /\ call = NoCall
    /\ \E a \in KernelRects(Id1), b \in KernelRects(Id2) :
          /\ call' = [fn |-> "isTouching", a |-> a, b |-> b, result |-> isTouching(a, b)]
          /\ cornerCache' = CacheAfter(cornerCache, <<a, b>>)
    /\ UNCHANGED <<validation, results, ncalls, ens>>

NextKernel ==
    \/ CallIsPolygonsIntersecting
    \/ CallIsTouching

SpecKernel == InitKernel /\ [][NextKernel]_vars

----------------------------------------------------------------------------
(* A SpatialGrid used directly: add calls and getPotentialCollisions queries *)

\* number of add calls on one grid
MaxAdds == 3

\* elements inside one cell, across two or three cells of a row, across two
\* cells of a column, and on a cell border
GridElements ==
    { LayoutElement(id, ElementType.WALL, g[1], g[2], g[3], g[4], 0) :
        id \in {Id1, Id2, Id3},
        g \in {<<10, 10, 20, 20>>, <<50, 10, 150, 20>>, <<110, 50, 20, 100>>} }

\* the elements given to add so far, in order
Added == IF "added" \in DOMAIN call THEN call.added ELSE <<>>

\* new SpatialGrid(100)
InitGrid ==
    /\ layout = ParkingLayout(<<>>)
    /\ pc = "grid"
    /\ violations = <<>>
    /\ grid = <<>>
    /\ adj = <<>>
    /\ entIdx = 1
    /\ visited = {}
    /\ queue = <<>>
    /\ dequeued = <<>>
    /\ foundExit = FALSE
    /\ cornerCache = <<>>
    /\ call = NoCall
    /\ results = <<>>
    /\ ncalls = 0
    /\ ens = NoEnsure

\* grid.add(el); an id names one element (the same element may be added again)
GridAdd ==
    /\ pc = "grid"
    /\ Len(Added) < MaxAdds
    /\ \E el \in GridElements :
          /\ \A e \in Range(Added) : e.id = el.id => e = el
          /\ grid' = add(grid, el)
          /\ call' = [fn |-> "add", added |-> Append(Added, el)]
    /\ UNCHANGED <<layout, pc, violations, adj, entIdx, visited, queue, dequeued,
                   foundExit, cornerCache, results, ncalls, ens>>

\* grid.getPotentialCollisions(el)
GridQuery ==
    /\ pc = "grid"
    /\ \E el \in GridElements :
          call' = [fn |-> "getPotentialCollisions", added |-> Added, el |-> el,
                   result |-> getPotentialCollisions(grid, el)]
    /\ UNCHANGED <<validation, cornerCache, results, ncalls, ens>>

NextGrid ==
    \/ GridAdd
    \/ GridQuery

SpecGrid == InitGrid /\ [][NextGrid]_vars

----------------------------------------------------------------------------
(* getCorners called directly, on a new cache and on a cache that is full *)

\* ids '1_2' and '1_2_3'
Id1_2 == <<49, 95, 50>>
Id1_2_3 == <<49, 95, 50, 95, 51>>

\* ids with and without '_' whose keys differ in one place only, an id used
\* again with another geometry and another rotation, a missing rotation
CacheElements ==
    { LayoutElement(Id1, ElementType.WALL, 2, 3, 4, 5, 0),
      LayoutElement(Id1, ElementType.WALL, 2, 3, 4, 5, 90),
      LayoutElement(Id1, ElementType.WALL, 3, 3, 4, 5, 0),
      LayoutElement(Id1_2, ElementType.WALL, 3, 4, 5, 6, 0),
      DropRotation(LayoutElement(Id1_2, ElementType.WALL, 3, 4, 5, 6, 0)),
      LayoutElement(Id1_2_3, ElementType.WALL, 4, 5, 6, 1, Rot345) }

\* cacheLimit different elements
Filler(x) == LayoutElement(Id7, ElementType.WALL, x, 0, 1, 1, 0)

\* the cache after getCorners was called on every Filler(x): up to cacheLimit
\* entries nothing is cleared, so each key holds the corners computed for it
FullCache ==
    LET \* the x of the key '7_<x>_0_1_1_0'
        val[ds \in Seq(48..57)] ==
            IF ds = <<>> THEN 0
            ELSE 10 * val[SubSeq(ds, 1, Len(ds) - 1)] + (ds[Len(ds)] - 48)
        xOf(key) == val[SubSeq(key, 3, Len(key) - 8)]
    IN  [key \in {cacheKey(Filler(x)) : x \in 1..cacheLimit} |->
            ComputeCorners(Filler(xOf(key)))]

InitCache ==
    /\ layout = ParkingLayout(<<>>)
    /\ pc = "cache"
    /\ violations = <<>>
    /\ grid = <<>>
    /\ adj = <<>>
    /\ entIdx = 1
    /\ visited = {}
    /\ queue = <<>>
    /\ dequeued = <<>>
    /\ foundExit = FALSE
    /\ cornerCache \in {<<>>, FullCache}
    /\ call = NoCall
    /\ results = <<>>
    /\ ncalls = 0
    /\ ens = NoEnsure

\* the cache was cleared by this getCorners call or by an earlier one
Cleared == "cleared" \in DOMAIN call /\ call.cleared

\* getCorners(el)
CallGetCorners ==
    /\ pc = "cache"
    /\ \E el \in CacheElements :
          LET hit == cacheKey(el) \in DOMAIN cornerCache
          IN  /\ call' = [fn |-> "getCorners", el |-> el, result |-> getCorners(el),
                          hit |-> hit,
                          cleared |-> \/ Cleared
                                      \/ /\ ~hit
                                         /\ Cardinality(DOMAIN cornerCache) > cacheLimit]
              /\ cornerCache' = CachePut(cornerCache, el)
    /\ UNCHANGED <<validation, results, ncalls, ens>>

NextCache == CallGetCorners

SpecCache == InitCache /\ [][NextCache]_vars

----------------------------------------------------------------------------
(* ensureValidLayout: the validate-and-fix loop around validateLayout *)

MAX_ITERATIONS == 5

\* k walls that leave the canvas on the left, apart from each other: each is
\* out of bounds, and the layout has neither entrance nor exit
OutLayout(k) ==
    ParkingLayout([i \in 1..k |->
        LayoutElement(<<48 + i>>, ElementType.WALL, -5, 20 * (i - 1), 10, 10, 0)])

\* one such wall, and an entrance and an exit that nothing connects
GateLayout ==
    ParkingLayout(OutLayout(1).elements
        \o << LayoutElement(Id6, ElementType.ENTRANCE, 50, 50, 10, 10, 0),
              LayoutElement(Id7, ElementType.EXIT, 150, 50, 10, 10, 0) >>)

\* the layouts given to ensureValidLayout
EnsureInputs == {OutLayout(k) : k \in 1..3} \cup {GateLayout}

\* the layouts runFixOperation may return
FixedLayouts == {OutLayout(k) : k \in 1..4} \cup {GateLayout}

\* what runFixOperation may do: return some layout, or throw
FixOutcomes == {[ok |-> TRUE, layout |-> lay] : lay \in FixedLayouts} \cup {[ok |-> FALSE]}

\* the null that JSON.stringify writes for a number that is not finite; like
\* Infinity it is only compared for equality
Null == -1000000000

JsonNumber(n) == IF n = Infinity THEN Null ELSE n

\* JSON.parse(JSON.stringify(lay)): a new layout with the same fields; a missing
\* field stays missing and a number that is not finite comes back as null
DeepCopy(lay) ==
    LET copy(el) ==
            [f \in DOMAIN el |->
                IF f \in {"x", "y", "width", "height", "rotation"}
                THEN JsonNumber(el[f]) ELSE el[f]]
    IN  [width |-> JsonNumber(lay.width), height |-> JsonNumber(lay.height),
         elements |-> [i \in DOMAIN lay.elements |-> copy(lay.elements[i])]]

\* currentLayout.elements.find(e => e.id === id): the index, 0 if none
FindById(lay, id) ==
    IF \E i \in DOMAIN lay.elements : lay.elements[i].id = id
    THEN CHOOSE i \in DOMAIN lay.elements :
            /\ lay.elements[i].id = id
            /\ \A j \in 1..(i - 1) : lay.elements[j].id # id
    ELSE 0

\* violations.every(v => overlap of a road and a wall)
isOnlyRoadWallIssues(vs, lay) ==
    \A n \in DOMAIN vs :
        LET v  == vs[n]
            i1 == FindById(lay, v.elementId)
            i2 == FindById(lay, v.targetId)
        IN  /\ v.type = "overlap"
            /\ i1 # 0 /\ i2 # 0
            /\ ElementType.ROAD \in {lay.elements[i1].type, lay.elements[i2].type}
            /\ ElementType.WALL \in {lay.elements[i1].type, lay.elements[i2].type}

\* the call that just returned is kept by the caller
Returned == Append(results, [layout |-> layout, violations |-> violations])

\* validateLayout(lay) is entered
EnterValidate(lay) ==
    /\ results' = Returned
    /\ ncalls' = ncalls + 1
    /\ layout' = lay
    /\ pc' = "start"
    /\ violations' = <<>>
    /\ grid' = <<>>
    /\ adj' = <<>>
    /\ entIdx' = 1
    /\ visited' = {}
    /\ queue' = <<>>
    /\ dequeued' = <<>>
    /\ foundExit' = FALSE
    /\ UNCHANGED <<cornerCache, call>>

\* ensureValidLayout(lay) up to the first validateLayout(layout) of
\* let previousViolationsCount = validateLayout(layout).length
InitEnsure ==
    /\ layout \in EnsureInputs
    /\ pc = "start"
    /\ violations = <<>>
    /\ grid = <<>>
    /\ adj = <<>>
    /\ entIdx = 1
    /\ visited = {}
    /\ queue = <<>>
    /\ dequeued = <<>>
    /\ foundExit = FALSE
    /\ cornerCache = <<>>
    /\ call = NoCall
    /\ results = <<>>
    /\ ncalls = 1
    /\ ens = [at |-> "previous", input |-> layout, currentLayout |-> layout,
              stableSnapshot |-> DeepCopy(layout), previousViolationsCount |-> 0,
              consecutiveRegressionCount |-> 0, hasReverted |-> FALSE,
              i |-> 0, fixes |-> 0, reverts |-> 0]

\* break, or the loop condition fails: return currentLayout
ReturnWith(e) ==
    /\ ens' = [e EXCEPT !.at = "returned"]
    /\ results' = Returned
    /\ UNCHANGED <<validation, cornerCache, call, ncalls>>

\* i++ and the loop test; the next iteration begins with validateLayout(currentLayout)
NextIteration(e) ==
    IF e.i + 1 < MAX_ITERATIONS
    THEN /\ ens' = [e EXCEPT !.i = e.i + 1, !.at = "loop"]
         /\ EnterValidate(e.currentLayout)
    ELSE ReturnWith([e EXCEPT !.i = e.i + 1])

\* the else branch of the regression test with the snapshot left as it was
NoRegression_KeepsSnapshot(e, currentViolationsCount) ==
    [e EXCEPT !.consecutiveRegressionCount = 0,
              !.previousViolationsCount = currentViolationsCount]

\* the else branch of the regression test: the current layout becomes the
\* stable snapshot
NoRegression(e, currentViolationsCount) ==
    [e EXCEPT !.consecutiveRegressionCount = 0,
              !.stableSnapshot = DeepCopy(e.currentLayout),
              !.previousViolationsCount = currentViolationsCount]

\* previousViolationsCount is assigned; the loop is entered with i = 0
EnsurePrevious ==
    /\ ens.at = "previous"
    /\ pc = "done"
    /\ ens' = [ens EXCEPT !.previousViolationsCount = Len(violations), !.at = "loop"]
    /\ EnterValidate(ens.currentLayout)

\* the body of the loop after validateLayout(currentLayout) returned
EnsureIteration ==
    /\ ens.at = "loop"
    /\ pc = "done"
    /\ LET currentViolationsCount == Len(violations)
           regression == currentViolationsCount > ens.previousViolationsCount
           streak == ens.consecutiveRegressionCount + 1
       IN  IF currentViolationsCount < 4
           THEN ReturnWith(ens)
           ELSE IF isOnlyRoadWallIssues(violations, ens.currentLayout)
           THEN ReturnWith(ens)
           ELSE IF regression /\ streak >= 2 /\ ens.hasReverted
           THEN ReturnWith([ens EXCEPT !.consecutiveRegressionCount = streak,
                                       !.currentLayout = ens.stableSnapshot])
           ELSE IF regression /\ streak >= 2
           THEN /\ ens' = [ens EXCEPT !.consecutiveRegressionCount = streak,
                                      !.currentLayout = ens.stableSnapshot,
                                      !.reverts = ens.reverts + 1,
                                      !.at = "revert"]
                /\ EnterValidate(ens.stableSnapshot)
           ELSE LET e == IF regression
                         THEN [ens EXCEPT !.consecutiveRegressionCount = streak]
                         ELSE NoRegression(ens, currentViolationsCount)
                IN  \E fix \in FixOutcomes :
                       IF fix.ok
                       THEN NextIteration([e EXCEPT !.currentLayout = fix.layout,
                                                    !.fixes = e.fixes + 1])
                       ELSE ReturnWith([e EXCEPT !.fixes = e.fixes + 1])

\* previousViolationsCount = validateLayout(stableSnapshot).length returned;
\* consecutiveRegressionCount = 0; hasReverted = true; continue
EnsureReverted ==
    /\ ens.at = "revert"
    /\ pc = "done"
    /\ NextIteration([ens EXCEPT !.previousViolationsCount = Len(violations),
                                 !.consecutiveRegressionCount = 0,
                                 !.hasReverted = TRUE])

\* the caller of ensureValidLayout validates the layout it got back
ValidateReturned ==
    /\ ens.at = "returned"
    /\ ens' = [ens EXCEPT !.at = "check"]
    /\ EnterValidate(ens.currentLayout)

NextEnsure ==
    \/ Next
    \/ EnsurePrevious
    \/ EnsureIteration
    \/ EnsureReverted
    \/ ValidateReturned

SpecEnsure == InitEnsure /\ [][NextEnsure]_vars

----------------------------------------------------------------------------
(* Properties of the list returned by validateLayout (pc = "done") *)

Done == pc = "done"

\* the elements of the layout, as a set
Elements == Range(layout.elements)

\* number of entries of the returned list that satisfy P
CountV(P(_)) == Cardinality({i \in DOMAIN violations : P(violations[i])})

\* number of out_of_bounds violations naming el
OutOfBoundsCount(el) ==
    LET is(v) == v.type = "out_of_bounds" /\ v.elementId = el.id IN CountV(is)

\* at least one rotated corner of el lies outside [0, width] x [0, height]
SomeCornerOutside(el) ==
    \E p \in Range(getCorners(el)) :
        ~(0 <= p.x /\ p.x <= Scale * layout.width /\ 0 <= p.y /\ p.y <= Scale * layout.height)

\* C1: every element with at least one rotated corner outside the canvas gets
\* exactly one out_of_bounds violation, whatever its rotation and also when its
\* unrotated box lies inside the canvas.
C1_CornerOutsideOneViolation ==
    Done => \A el \in Elements : SomeCornerOutside(el) => OutOfBoundsCount(el) = 1

BothSolid(a, b) == a.type \in solidTypes /\ b.type \in solidTypes

\* the pair is in the exception table: wall-wall, road-road, pillar-wall
ExemptPair(a, b) ==
    {a.type, b.type} \in { {ElementType.WALL}, {ElementType.ROAD},
                           {ElementType.PILLAR, ElementType.WALL} }

\* the pair is a ramp and a road
RampRoadPair(a, b) == {a.type, b.type} = {ElementType.RAMP, ElementType.ROAD}

\* the exact polygons of a and b intersect
PolygonsMeet(a, b) == isPolygonsIntersecting(getCorners(a), getCorners(b))

\* number of overlap violations naming both a and b
OverlapCount(a, b) ==
    LET is(v) == v.type = "overlap" /\ {v.elementId, v.targetId} = {a.id, b.id}
    IN  CountV(is)

\* C3: two solid elements with distinct ids, neither an exempt pair nor a
\* ramp-road pair, whose exact polygons intersect get exactly one overlap
\* violation naming both: the distance prefilter discards no intersecting pair.
C3_IntersectingSolidsOneOverlap ==
    Done => \A a, b \in Elements :
                (/\ a.id # b.id
                 /\ BothSolid(a, b)
                 /\ ~ExemptPair(a, b)
                 /\ ~RampRoadPair(a, b)
                 /\ PolygonsMeet(a, b)) => OverlapCount(a, b) = 1

\* the indices of the overlap violations of the returned list
OverlapIdx == {i \in DOMAIN violations : violations[i].type = "overlap"}

\* id names an element of a solid kind of the layout
SolidId(id) == \E el \in Elements : el.id = id /\ el.type \in solidTypes

\* C4: every overlap violation has elementId < targetId as strings, both ids
\* are ids of solid elements, and no unordered pair is reported twice.
C4_OverlapPairsCanonical ==
    Done =>
        /\ \A i \in OverlapIdx :
              /\ StrLess(violations[i].elementId, violations[i].targetId)
              /\ SolidId(violations[i].elementId)
              /\ SolidId(violations[i].targetId)
        /\ \A i, j \in OverlapIdx :
              i # j => {violations[i].elementId, violations[i].targetId}
                       # {violations[j].elementId, violations[j].targetId}

\* C4 happens: three overlaps are reported for three elements, one of them for
\* a pair whose smaller id belongs to the element that comes later in
\* layout.elements.
C4_Witness ==
    /\ Done
    /\ Cardinality(OverlapIdx) = 3
    /\ \E i \in OverlapIdx :
          /\ layout.elements[2].id = violations[i].elementId
          /\ layout.elements[1].id = violations[i].targetId


\* the road elements of the layout
Roads == {e \in Elements : e.type = ElementType.ROAD}

\* the ramp elements of the layout
Ramps == {e \in Elements : e.type = ElementType.RAMP}

\* number of violations of the given type naming el whose message ends with tail
CountFor(el, type, tail) ==
    LET is(v) == /\ v.type = type
                 /\ v.elementId = el.id
                 /\ v.message[Len(v.message)] = tail
    IN  CountV(is)

\* some road of the layout overlaps item: padded boxes meet and polygons intersect
OnSomeRoad(item) == \E road \in Roads : isOverlapping(road, item)

\* C5: an element of a must-be-on-road kind gets exactly one 'must be placed on
\* a Driving Lane' placement_error if and only if no road anywhere in the layout
\* overlaps it (padded boxes meet and the exact polygons intersect).
C5_MustBeOnRoad ==
    Done => \A item \in Elements :
                item.type \in itemsOnRoad =>
                    CountFor(item, "placement_error", " must be placed on a Driving Lane.")
                        = (IF OnSomeRoad(item) THEN 0 ELSE 1)

\* C6: an element of a must-not-be-on-road kind gets exactly one 'must NOT
\* overlap a Driving Lane' placement_error if and only if some road of the
\* layout overlaps it in the sense of isOverlapping.
C6_MustNotBeOnRoad ==
    Done => \A item \in Elements :
                item.type \in itemsNotOnRoad =>
                    CountFor(item, "placement_error", " must NOT overlap a Driving Lane.")
                        = (IF OnSomeRoad(item) THEN 1 ELSE 0)

\* C7: an entrance or exit touching no ramp of the layout gets exactly one 'must
\* be adjacent to a Ramp' connectivity_error, a ramp touching no road exactly
\* one 'Ramp must connect to a Driving Lane' connectivity_error; a gate touching
\* a ramp and a ramp touching a road get none.
C7_Adjacency ==
    Done =>
        /\ \A gate \in Elements :
              gate.type \in {ElementType.ENTRANCE, ElementType.EXIT} =>
                  CountFor(gate, "connectivity_error", " must be adjacent to a Ramp.")
                      = (IF \E r \in Ramps : isTouching(r, gate) THEN 0 ELSE 1)
        /\ \A ramp \in Ramps :
              CountFor(ramp, "connectivity_error", "Ramp must connect to a Driving Lane.")
                  = (IF \E road \in Roads : isTouching(road, ramp) THEN 0 ELSE 1)


\* number of connectivity_error violations whose elementId is 'global'
GlobalCount ==
    LET is(v) == v.type = "connectivity_error" /\ v.elementId = GlobalId IN CountV(is)

\* number of entries of the returned list equal to the violation with this message
GlobalMessageCount(msg) ==
    LET is(v) == v = ConstraintViolation(GlobalId, NoTarget, "connectivity_error", <<msg>>)
    IN  CountV(is)

NoEntrance == \A e \in Elements : e.type # ElementType.ENTRANCE
NoExit == \A e \in Elements : e.type # ElementType.EXIT

\* C8 as stated: a layout with zero entrances gets exactly one connectivity_error
\* whose elementId is 'global', whatever the number of exits.
C8_ZeroEntrancesOneGlobal ==
    (Done /\ NoEntrance) => GlobalCount = 1

\* C8 amended: a layout with zero entrances gets exactly one 'Must have at least
\* one Entrance.' global violation; the global connectivity_errors are that one
\* alone when the layout has an exit, and that one followed by the missing-exit
\* violation (two in all) when it has none.
C8_ZeroEntrancesGlobal ==
    (Done /\ NoEntrance) =>
        /\ GlobalMessageCount("Must have at least one Entrance.") = 1
        /\ GlobalMessageCount("Must have at least one Exit.") = (IF NoExit THEN 1 ELSE 0)
        /\ GlobalCount = (IF NoExit THEN 2 ELSE 1)

\* C8 happens: the validation of a layout with exits but no entrance is over.
C8_Witness ==
    /\ Done
    /\ NoEntrance
    /\ ~NoExit
    /\ GlobalCount = 1

\* the navigable elements that a path of pairwise intersecting navigable
\* elements joins to e
ReachableFrom(e) ==
    LET nodes == {n \in Elements : n.type \in navigableTypes}
        step(S) == S \cup {n \in nodes : \E m \in S : m.id # n.id /\ PolygonsMeet(m, n)}
        f[k \in 0..Cardinality(nodes)] == IF k = 0 THEN {e} ELSE step(f[k - 1])
    IN  f[Cardinality(nodes)]

\* the kinds of the elements of the layout, in order
KindsInOrder == [i \in DOMAIN layout.elements |-> layout.elements[i].type]

\* layout.elements is entrance, ramp, road, ramp, exit, each touching the next
IsTouchingChain ==
    /\ KindsInOrder = << ElementType.ENTRANCE, ElementType.RAMP, ElementType.ROAD,
                         ElementType.RAMP, ElementType.EXIT >>
    /\ \A i \in 1..4 : PolygonsMeet(layout.elements[i], layout.elements[i + 1])

\* C9: an entrance gets the 'No drivable path' connectivity_error if and only if
\* the layout has an exit and no exit is reachable from it in the navigation
\* graph (an edge joins two navigable elements iff their polygons intersect);
\* a chain entrance-ramp-road-ramp-exit of touching elements gets no
\* connectivity_error at all.
C9_Reachability ==
    Done =>
        /\ \A e \in Elements :
              e.type = ElementType.ENTRANCE =>
                  CountFor(e, "connectivity_error",
                           "No drivable path exists from this Entrance to any Exit.")
                      = (IF /\ ~NoExit
                            /\ \A n \in ReachableFrom(e) : n.type # ElementType.EXIT
                         THEN 1 ELSE 0)
        /\ IsTouchingChain =>
              \A i \in DOMAIN violations : violations[i].type # "connectivity_error"

\* rotation is a multiple of 90 degrees
AxisAligned(el) == el.rotation \in {0, 90, 180, 270}

\* C10: once the elements are in the grid, two elements with rotations that are
\* multiples of 90 degrees and intersecting exact polygons are candidates of
\* each other.
C10_BroadPhaseSound ==
    pc # "start" =>
        \A a, b \in Elements :
            (/\ a.id # b.id
             /\ AxisAligned(a) /\ AxisAligned(b)
             /\ PolygonsMeet(a, b)) => b \in Range(getPotentialCollisions(grid, a))

----------------------------------------------------------------------------
(* The navigation graph *)

\* the adjacency map has been built (navigables.length > 0)
GraphBuilt == pc \in {"bfs", "bfsloop", "global", "done"} /\ DOMAIN adj # {}

\* id v is in adj.get(u)
Lists(u, v) == v \in Range(adj[u])

\* C21: after graph construction the adjacency map is an undirected simple
\* graph over the navigable elements (u lists v iff v lists u, no self-loop,
\* no id listed twice), and u lists v exactly when the polygons of u and v
\* intersect, for every pair of navigable elements, rotated ones included.
C21_GraphIsIntersectionGraph ==
    GraphBuilt =>
        \A u, v \in Range(Navigables(layout)) :
            /\ Lists(u.id, v.id) <=> Lists(v.id, u.id)
            /\ ~Lists(u.id, u.id)
            /\ \A i, j \in DOMAIN adj[u.id] : i # j => adj[u.id][i] # adj[u.id][j]
            /\ u.id # v.id => (Lists(u.id, v.id) <=> PolygonsMeet(u, v))

\* the unrotated boxes of a and b meet along a piece of boundary of positive
\* length and nowhere else (a vertical or a horizontal shared edge)
SharesBoundaryEdge(a, b) ==
    \/ /\ (a.x + a.width = b.x \/ b.x + b.width = a.x)
       /\ Max2(a.y, b.y) < Min2(a.y + a.height, b.y + b.height)
    \/ /\ (a.y + a.height = b.y \/ b.y + b.height = a.y)
       /\ Max2(a.x, b.x) < Min2(a.x + a.width, b.x + b.width)

\* C25: the ramp rules are jointly satisfiable: an unrotated ramp that shares
\* a boundary edge with an unrotated road, without interior overlap, gets
\* neither a connectivity_error nor a placement_error.
C25_TouchingRampCompliant ==
    Done => \A ramp, road \in Elements :
                (/\ ramp.type = ElementType.RAMP /\ road.type = ElementType.ROAD
                 /\ ramp.rotation = 0 /\ road.rotation = 0
                 /\ SharesBoundaryEdge(ramp, road))
                => \A i \in DOMAIN violations :
                       violations[i].elementId = ramp.id
                       => violations[i].type \notin {"connectivity_error", "placement_error"}

----------------------------------------------------------------------------
(* What a violation refers to *)

HasId(id) == \E el \in Elements : el.id = id

GlobalMessages ==
    {<<"Must have at least one Entrance.">>, <<"Must have at least one Exit.">>}

\* C30: every returned violation refers to its layout: elementId is "global"
\* or the id of an element; a targetId is present only on overlap violations
\* and is then the id of another element; "global" is used only by the
\* missing-entrance and missing-exit violations.
C30_ViolationsReferToLayout ==
    Done => \A i \in DOMAIN violations :
                LET v == violations[i]
                IN  /\ v.elementId = GlobalId \/ HasId(v.elementId)
                    /\ v.targetId # NoTarget
                       => /\ v.type = "overlap"
                          /\ HasId(v.targetId)
                          /\ v.targetId # v.elementId
                    /\ v.elementId = GlobalId => v.message \in GlobalMessages

\* a call that returned an overlap, a violation of a single element and a
\* layout-wide violation
C30_Witness ==
    /\ Done
    /\ \E i, j, k \in DOMAIN violations :
          /\ violations[i].type = "overlap" /\ violations[i].targetId # NoTarget
          /\ violations[j].targetId = NoTarget /\ HasId(violations[j].elementId)
          /\ violations[k].elementId = GlobalId

----------------------------------------------------------------------------
(* The breadth-first search *)

NavigableIds == {el.id : el \in Range(Navigables(layout))}

NoRepeat(s) == \A i, j \in DOMAIN s : i # j => s[i] # s[j]

InBfs == pc = "bfsloop"

\* C27: the search of one entrance terminates, also on graphs with cycles:
\* every id is put into visited and enqueued at most once, so at most one
\* dequeue happens per navigable element.
C27_BfsBounded ==
    InBfs =>
        /\ NoRepeat(dequeued \o queue)
        /\ visited = Range(dequeued) \cup Range(queue)
        /\ visited \subseteq NavigableIds
        /\ Len(dequeued) <= Cardinality(NavigableIds)

\* a search that ran around a cycle of three navigable elements: the element
\* dequeued third lists two ids that are already visited
C27_Witness ==
    /\ InBfs
    /\ Len(dequeued) >= 3
    /\ \E a, b \in visited :
          /\ a # b
          /\ Lists(dequeued[3], a) /\ Lists(dequeued[3], b) /\ Lists(a, b)

----------------------------------------------------------------------------
(* The candidate list of the grid *)

GridCall == pc = "grid" /\ call.fn = "getPotentialCollisions"

\* the cells covered by the unrotated box of el
CellsOf(el) == Range(getKeysForElement(el))

\* the entries of the buckets of the cells covered by el
BucketEntries(el) ==
    UNION {Range(grid[key]) : key \in CellsOf(el) \cap DOMAIN grid}

----------------------------------------------------------------------------
(* The optional rotation *)

\* top-left, top-right, bottom-right, bottom-left of the unrotated box
BoxCorners(el) ==
    << [x |-> Scale * el.x,              y |-> Scale * el.y],
       [x |-> Scale * (el.x + el.width), y |-> Scale * el.y],
       [x |-> Scale * (el.x + el.width), y |-> Scale * (el.y + el.height)],
       [x |-> Scale * el.x,              y |-> Scale * (el.y + el.height)] >>

NoRotation(el) == "rotation" \notin DOMAIN el

\* C23: a missing rotation behaves as rotation 0: getCorners of an element
\* without the field equals getCorners of the element with rotation 0, the
\* four unrotated corners TL, TR, BR, BL, and validateLayout returns the same
\* violations for the layout in both writings.
C23_MissingRotationIsZero ==
    /\ \A el \in Elements :
          (NoRotation(el) \/ el.rotation = 0)
          => /\ getCorners(DropRotation(el)) = BoxCorners(el)
             /\ getCorners(FillRotation(el)) = BoxCorners(el)
    /\ (Done /\ results # <<>>)
       => LET last == results[Len(results)]
          IN  Filled(last.layout) = Filled(layout) => last.violations = violations

\* the second call returned: the layout had been given with a rotation missing
\* or written as 0 and a rotated element beside it, and violations were found
C23_Witness ==
    /\ Done
    /\ results # <<>>
    /\ results[Len(results)].layout # layout
    /\ violations # <<>>
    /\ \E a, b \in Range(results[Len(results)].layout.elements) :
          NoRotation(a) /\ ~NoRotation(b)

----------------------------------------------------------------------------
(* The lifetime of the corner cache *)

\* validateLayout is entered on a layout other than the one validated before
EntersOnAnotherLayout ==
    pc = "start" /\ results # <<>> /\ results[Len(results)].layout # layout

\* C24: the corner cache is scoped to one validation call: no entry written
\* while validating one layout is present during a later call on another
\* layout.
C24_CacheScopedToCall == EntersOnAnotherLayout => DOMAIN cornerCache = {}

----------------------------------------------------------------------------
(* The corner cache against the uncached computation *)

CornersCall == pc = "cache" /\ call.fn = "getCorners"

\* C26: cache transparency: after any sequence of getCorners calls (ids with
\* '_', ids used again with another geometry, across the clearing of a cache
\* of more than 2000 entries) getCorners returns for every element the four
\* points of the uncached computation.
C26_CacheTransparent ==
    pc = "cache" =>
        /\ CornersCall => call.result = ComputeCorners(call.el)
        /\ \A el \in CacheElements : getCorners(el) = ComputeCorners(el)

\* after the cache was cleared, a call on an id with '_' was served from the
\* cache while the cache also holds two entries of one id
C26_Witness ==
    /\ CornersCall
    /\ Cleared
    /\ call.hit
    /\ 95 \in Range(call.el.id)
    /\ \E a, b \in CacheElements :
          /\ a.id = b.id /\ a # b
          /\ {cacheKey(a), cacheKey(b)} \subseteq DOMAIN cornerCache

----------------------------------------------------------------------------
(* The validate-and-fix loop *)

\* the number of violations the calls made so far returned for lay
CountsOf(lay) == {Len(r.violations) : r \in {r \in Range(results) : r.layout = lay}}

\* the caller validated the layout that ensureValidLayout returned
CheckedReturn == ens.at = "check" /\ pc = "done"

\* C28: ensureValidLayout never returns a layout worse than the one it was
\* given: whatever the fix operations return, validateLayout reports for the
\* returned layout at most as many violations as for the input layout.
C28_NeverWorse ==
    CheckedReturn => Len(violations) <= Len(results[1].violations)

\* validateLayout(currentLayout) of an iteration is about to run
IterationStart == ens.at = "loop" /\ pc = "start"

\* previousViolationsCount is the number of violations of stableSnapshot
\* when an iteration starts; the reverts and the fix operations are bounded
LoopState ==
    /\ IterationStart => CountsOf(ens.stableSnapshot) = {ens.previousViolationsCount}
    /\ ens.at # "none"
       => /\ ens.reverts <= 1
          /\ ens.hasReverted <=> (ens.reverts = 1 /\ ens.at # "revert")
          /\ ens.fixes <= MAX_ITERATIONS
          /\ ens.fixes <= ens.i + 1

\* once assigned, previousViolationsCount does not grow in a step
CountStep ==
    ens.at \notin {"none", "previous"}
    => ens'.previousViolationsCount <= ens.previousViolationsCount

\* C29: at the start of every iteration previousViolationsCount is the number
\* of violations of stableSnapshot, that number never increases from one
\* iteration to the next, at most one revert to the snapshot happens and at
\* most MAX_ITERATIONS fix operations are issued.
C29_LoopInvariant == []LoopState /\ [][CountStep]_vars

\* the fifth iteration begins after a revert, with a snapshot that is not the
\* input any more and after four fix operations
C29_Witness ==
    /\ IterationStart
    /\ ens.i = MAX_ITERATIONS - 1
    /\ ens.hasReverted
    /\ ens.stableSnapshot # ens.input
    /\ ens.fixes = MAX_ITERATIONS - 2

----------------------------------------------------------------------------
(* The exception table and the ramp-road rule of the overlap pass *)

\* C19: no overlap violation names a wall-wall, a road-road or a pillar-wall
\* pair, in either id order and however the two elements lie.
C19_ExemptPairsNeverReported ==
    Done => \A a, b \in Elements : ExemptPair(a, b) => OverlapCount(a, b) = 0

\* a wall with the smaller id and a pillar whose polygons intersect, unreported
C19_Witness ==
    /\ Done
    /\ \E a, b \in Elements :
          /\ a.type = ElementType.WALL /\ b.type = ElementType.PILLAR
          /\ StrLess(a.id, b.id)
          /\ PolygonsMeet(a, b)
          /\ OverlapCount(a, b) = 0

\* width and height of the intersection of the unrotated boxes of a and b
\* (not positive when the boxes do not overlap)
BoxOverlapWidth(a, b) == Min2(a.x + a.width, b.x + b.width) - Max2(a.x, b.x)
BoxOverlapHeight(a, b) == Min2(a.y + a.height, b.y + b.height) - Max2(a.y, b.y)

\* C20: a ramp and a road with distinct ids get an overlap violation exactly
\* when the intersection rectangle of their unrotated boxes is wider than 2
\* and higher than 2; touching, or overlapping by 2 or less in one dimension,
\* yields none, whatever the polygon test or the distance prefilter would say.
C20_RampRoadRule ==
    Done => \A a, b \in Elements :
                (a.type = ElementType.RAMP /\ b.type = ElementType.ROAD /\ a.id # b.id)
                => OverlapCount(a, b) =
                      (IF BoxOverlapWidth(a, b) > 2 /\ BoxOverlapHeight(a, b) > 2
                       THEN 1 ELSE 0)

\* a ramp and a road whose boxes overlap by exactly 2 and whose polygons
\* intersect: no violation
C20_Witness ==
    /\ Done
    /\ \E a, b \in Elements :
          /\ a.type = ElementType.RAMP /\ b.type = ElementType.ROAD
          /\ BoxOverlapWidth(a, b) = 2 /\ BoxOverlapHeight(a, b) = 2
          /\ PolygonsMeet(a, b)
          /\ OverlapCount(a, b) = 0

----------------------------------------------------------------------------
(* validateLayout and its argument *)

\* C16: validateLayout is read-only with respect to its input: no step of a
\* call changes layout.width, layout.height, the order of layout.elements or
\* any field of any element.
C16_InputReadOnly == [][layout' = layout]_vars

\* a call is over that placed several elements in the grid, built the
\* navigation graph and pushed violations
C16_Witness ==
    /\ Done
    /\ Len(layout.elements) >= 3
    /\ DOMAIN adj # {}
    /\ violations # <<>>

----------------------------------------------------------------------------
(* Malformed geometry *)

\* violation v names the element with this id
Names(v, id) == v.elementId = id \/ v.targetId = id

\* el has a non-finite field or a non-positive width or height
Malformed(el) ==
    \/ Infinity \in {el.x, el.y, el.width, el.height}
    \/ el.width <= 0
    \/ el.height <= 0

\* C13: an element with a non-finite coordinate or with width <= 0 or
\* height <= 0 yields an invalid_dimension violation and takes part in no
\* bounds, overlap, placement, adjacency or graph test: invalid_dimension is
\* the only type of a violation that names it.
C13_MalformedYieldsInvalidDimension ==
    Done => \A el \in Elements : Malformed(el) =>
                /\ \E i \in DOMAIN violations :
                      /\ violations[i].type = "invalid_dimension"
                      /\ violations[i].elementId = el.id
                /\ \A i \in DOMAIN violations :
                      Names(violations[i], el.id) => violations[i].type = "invalid_dimension"

\* the list returned for a layout without elements
EmptyLayoutResult ==
    << ConstraintViolation(GlobalId, NoTarget, "connectivity_error",
                           <<"Must have at least one Entrance.">>),
       ConstraintViolation(GlobalId, NoTarget, "connectivity_error",
                           <<"Must have at least one Exit.">>) >>

\* C14: validateLayout returns a violation list for every layout: the grid
\* insertion loop finishes for every element, and an empty element list
\* returns exactly the missing-entrance and the missing-exit violation.
C14_AlwaysReturns ==
    /\ pc # "no_return"
    /\ (Done /\ layout.elements = <<>>) => violations = EmptyLayoutResult

----------------------------------------------------------------------------
(* Successive calls of validateLayout *)

\* C15: validateLayout is stateless and idempotent: a call on a layout
\* returns the list an earlier call on the same layout returned, whatever
\* layouts were validated before or in between, layouts that reuse the
\* same ids with another geometry included.
C15_Idempotent ==
    Done => \A i \in DOMAIN results :
                results[i].layout = layout => results[i].violations = violations

\* lay2 gives an id of lay1 to an element with other fields
ReusesIds(lay1, lay2) ==
    \E e1 \in Range(lay1.elements), e2 \in Range(lay2.elements) :
        e1.id = e2.id /\ e1 # e2

\* a layout validated a second time after a layout that reuses its ids with
\* another geometry and returned another, non-empty list
C15_Witness ==
    /\ Done
    /\ violations # <<>>
    /\ \E i, j \in DOMAIN results :
          /\ i < j
          /\ results[i].layout = layout
          /\ ReusesIds(layout, results[j].layout)
          /\ results[j].violations # <<>>
          /\ results[j].violations # violations

\* the closed vocabulary of element kinds
Vocabulary == {ElementType[k] : k \in DOMAIN ElementType}

IsUnknown(el) == el.type \notin Vocabulary

\* lay without its elements of unknown kind
Strip(lay) ==
    LET known(e) == ~IsUnknown(e)
    IN  [lay EXCEPT !.elements = SelectSeq(lay.elements, known)]

\* the violations of vs that name no element of unknown kind of lay
Others(vs, lay) ==
    LET other(v) == \A e \in Range(lay.elements) : IsUnknown(e) => ~Names(v, e.id)
    IN  SelectSeq(vs, other)

\* C17: an element whose kind is outside the vocabulary is checked for
\* bounds only: out_of_bounds is the only type of a violation that names it,
\* as elementId or as targetId, and adding or removing such elements leaves
\* the violations of the other elements as they were.
C17_UnknownKindBoundsOnly ==
    Done =>
        /\ \A el \in Elements : IsUnknown(el) =>
              \A i \in DOMAIN violations :
                  Names(violations[i], el.id) => violations[i].type = "out_of_bounds"
        /\ \A i \in DOMAIN results :
              Strip(results[i].layout) = Strip(layout)
              => Others(results[i].violations, results[i].layout) = Others(violations, layout)

\* a layout with an unknown element lying over a solid and one leaving the
\* canvas (reported out_of_bounds), validated after the same layout without
\* them, which has violations of its own
C17_Witness ==
    /\ Done
    /\ UnknownOver \in Elements
    /\ \E el \in Elements : el.type \in solidTypes /\ PolygonsMeet(UnknownOver, el)
    /\ \E i \in DOMAIN violations : Names(violations[i], UnknownOut.id)
    /\ \E i \in DOMAIN results :
          /\ results[i].layout = Strip(layout)
          /\ results[i].violations # <<>>

----------------------------------------------------------------------------
(* Direct calls of the geometry functions *)

SatCall == call.fn = "isPolygonsIntersecting"

\* polygon p has an edge of zero length (two consecutive equal vertices)
HasZeroEdge(p) == \E j \in DOMAIN p : p[j] = p[(j % Len(p)) + 1]

\* C11: isPolygonsIntersecting is symmetric: for all polygons A and B, among
\* them polygons with fewer than three vertices and polygons with
\* zero-length edges, isPolygonsIntersecting(A, B) returns what
\* isPolygonsIntersecting(B, A) returns.
C11_SatSymmetric ==
    SatCall => call.result = isPolygonsIntersecting(call.b, call.a)

\* a triangle with a repeated vertex meets a rotated rectangle
C11_Witness ==
    /\ SatCall
    /\ Len(call.a) = 3 /\ HasZeroEdge(call.a)
    /\ call.b \in RectPolygons /\ call.b[1].y # call.b[2].y
    /\ call.result

TouchCall == call.fn = "isTouching"

\* the closed unrotated boxes of a and b have a common point
ClosedBoxesMeet(a, b) ==
    /\ a.x <= b.x + b.width
    /\ b.x <= a.x + a.width
    /\ a.y <= b.y + b.height
    /\ b.y <= a.y + a.height

\* the open unrotated boxes of a and b have no common point
InteriorsDisjoint(a, b) ==
    \/ a.x + a.width <= b.x
    \/ b.x + b.width <= a.x
    \/ a.y + a.height <= b.y
    \/ b.y + b.height <= a.y

\* a gap of positive width separates the projections on the x or the y axis
\* (the edge normals of unrotated rectangles)
PositiveGap(a, b) ==
    \/ a.x + a.width < b.x
    \/ b.x + b.width < a.x
    \/ a.y + a.height < b.y
    \/ b.y + b.height < a.y

\* C12: touch policy.  Two unrotated rectangles that share an edge or a
\* corner point and have disjoint interiors are touching (isTouching, hence
\* isPolygonsIntersecting on their corners, returns true); the result is
\* false only when a strictly positive gap separates their projections on
\* some edge normal.
C12_TouchPolicy ==
    TouchCall =>
        /\ (ClosedBoxesMeet(call.a, call.b) /\ InteriorsDisjoint(call.a, call.b)
                => call.result)
        /\ (~call.result => PositiveGap(call.a, call.b))

\* two rectangles that share one corner point only are reported touching
C12_Witness ==
    /\ TouchCall
    /\ call.a.x + call.a.width = call.b.x
    /\ call.a.y + call.a.height = call.b.y
    /\ call.result

\* isPolygonsIntersecting called on the corners of two unrotated rectangles
BoxCall == SatCall /\ call.a \in BoxPolygons /\ call.b \in BoxPolygons

\* the closed-interval box test on corner lists TL, TR, BR, BL
ClosedBoxTest(pa, pb) ==
    /\ pa[1].x <= pb[3].x
    /\ pb[1].x <= pa[3].x
    /\ pa[1].y <= pb[3].y
    /\ pb[1].y <= pa[3].y

\* C18: on unrotated rectangles with positive width and height
\* isPolygonsIntersecting agrees with the closed-interval box test: it is
\* true exactly when a.x <= b.x + b.width, b.x <= a.x + a.width,
\* a.y <= b.y + b.height and b.y <= a.y + a.height.
C18_SatIsClosedBoxTest ==
    BoxCall => (call.result <=> ClosedBoxTest(call.a, call.b))

\* two boxes that share part of a vertical edge and nothing else
C18_Witness ==
    /\ BoxCall
    /\ call.a[3].x = call.b[1].x
    /\ call.a[1].y < call.b[1].y /\ call.b[1].y < call.a[3].y
    /\ call.result

====
